---- MODULE Spec2Model ----
(***************************************************************************)
(* Model of src/app.py: the /generate relay of the Translator-Rephraser.   *)
(*                                                                         *)
(* Text is a sequence of Unicode code points.  A Python value that may be  *)
(* a string or None is a record [t, v]: Str(s) or None.  The literal       *)
(* blocks of the prompt templates are single negative "code points", one   *)
(* per block, so that they can never be confused with input text.          *)
(***************************************************************************)
EXTENDS Integers, Sequences, FiniteSets, TLC

VARIABLES
    pc,        \* position of the request: handler, generator, or pure call
    body,      \* the JSON body of the POST /generate request
    status,    \* HTTP status of the response (0: none yet)
    mimetype,  \* mimetype of the response ("" : none yet)
    payload,   \* the payload built at app.py:113 for the backend
    posts,     \* number of requests.post calls made to the backend
    upstream,  \* the lines the backend delivers through iter_lines
    ending,    \* what follows the last line: "close" or "error"
    idx,       \* number of upstream lines read so far
    chunk,     \* the line in hand inside the for loop
    exc,       \* the exception in flight ("none" when there is none)
    out,       \* the frames yielded by the generator, oldest first
    arg,       \* arguments of a direct call to clean_response / create_prompt
    ret        \* its return value

vars == <<pc, body, status, mimetype, payload, posts, upstream, ending, idx,
          chunk, exc, out, arg, ret>>

----------------------------------------------------------------------------
\* Bounds of the model.

\* Longest upstream line sequence.
MaxLines == 2
\* Longest `text` of a request body.
MaxTextLen == 1
\* Longest string handed to clean_response / create_prompt directly.
MaxArgLen == 2

----------------------------------------------------------------------------
\* Python values.

Str(s) == [t |-> "str", v |-> s]

None == [t |-> "None", v |-> <<>>]

\* bool(x) for a str or None.
Truthy(x) == x.t = "str" /\ x.v # <<>>

\* The text "None".
NoneText == <<78, 111, 110, 101>>

\* f"{x}": str(x) of a str or None.
Format(x) == IF x.t = "None" THEN NoneText ELSE x.v

Strings(A, n) == UNION {[1..k -> A] : k \in 0..n}

\* s contains t as a contiguous substring.
Contains(s, t) ==
    \E i \in 0..(Len(s) - Len(t)) : SubSeq(s, i + 1, i + Len(t)) = t

----------------------------------------------------------------------------
\* Code points.

QuestionMark == 63
DiacriticLo == 1611
DiacriticHi == 1631
SuperscriptAlef == 1648
ArabicLo == 1536
ArabicHi == 1791

----------------------------------------------------------------------------
\* is_arabic (app.py:15-19)

is_arabic(text) ==
    IF ~Truthy(text)
    THEN FALSE
    ELSE \E i \in 1..Len(text.v) : text.v[i] >= ArabicLo /\ text.v[i] <= ArabicHi

----------------------------------------------------------------------------
\* clean_response (app.py:21-32)

RECURSIVE Remove(_, _)
Remove(s, drop) ==
    IF s = <<>> THEN <<>>
    ELSE IF Head(s) \in drop THEN Remove(Tail(s), drop)
    ELSE <<Head(s)>> \o Remove(Tail(s), drop)

\* The class with its upper end one short: [\u064B-\u065E\u0670]
arabic_diacritics_short == (DiacriticLo..(DiacriticHi - 1)) \cup {SuperscriptAlef}

\* re.compile(r'[\u064B-\u065F\u0670]')
arabic_diacritics == (DiacriticLo..DiacriticHi) \cup {SuperscriptAlef}

clean_response(text) ==
    IF ~Truthy(text)
    THEN text
    ELSE LET cleaned_text == Remove(text.v, arabic_diacritics)
         IN  Str(Remove(cleaned_text, {QuestionMark}))

----------------------------------------------------------------------------
\* create_prompt (app.py:34-103)

Arabic == <<65, 114, 97, 98, 105, 99>>
English == <<69, 110, 103, 108, 105, 115, 104>>
Quote == <<34>>
Newline == <<10>>

\* The literal blocks of the templates, in source order.
\* "<start_of_turn>user\nYou are a direct translation engine. Translate the provided "
TranslateHead == <<-1>>
\* " text to "
TextTo == <<-2>>
\* ".\n\nFollow these rules exactly:\n"
FollowRules == <<-3>>
\* app.py:45-47, rules 1 and 2: no diacritics, no question marks
DiacriticsRule == <<-4>>
\* app.py:48-50, rules 3-5 up to "every single "
ArabicRules == <<-5>>
\* app.py:52-54, rules 1-3 up to "every single "
EnglishRules == <<-6>>
\* " word into "
WordInto == <<-7>>
\* "."
Dot == <<46>>
\* "\n\n### TASK ###\n"
TaskHeader == <<-8>>
\* " Text: "
TextLabel == <<-9>>
\* "<end_of_turn>\n<start_of_turn>model\n"
EndOfTurn == <<-10>>
\* app.py:72-75 up to "Analyze this "
TokenizeHead == <<-11>>
\* " text: "
TextColon == <<-12>>
\* app.py:75-77 from "\n2.  Extract" up to "**All tags MUST be in "
TagsMustBeIn == <<-13>>
\* app.py:77-80 from ".** Do not mix" up to "If generating "
IfGenerating == <<-14>>
\* app.py:80-84 from " tags, do NOT include" up to the opening of the template, {"
TemplateOpen == <<-15>>
\* "arabic_tags" and "english_tags"
ArabicTags == <<-16>>
EnglishTags == <<-17>>
\* app.py:84-86 from ": []}" up to "filled-out template."
TemplateClose == <<-18>>
\* app.py:91-92 up to "rewrite the following "
RephraseHead == <<-19>>
\* app.py:92-95 from " text to be clearer" up to "Keep it in "
KeepItIn == <<-20>>
\* app.py:95-99 from ".\n2. Output ONLY" up to "Text: "
RephraseRules == <<-21>>

\* app.py:38-66
translate_prompt(text, source_lang) ==
    LET target_lang == IF source_lang = English THEN Arabic ELSE English
        diacritics_rule ==
            IF target_lang = Arabic THEN DiacriticsRule ELSE <<>>
        other_rules ==
            IF target_lang = Arabic
            THEN ArabicRules \o source_lang \o WordInto \o target_lang \o Dot
            ELSE EnglishRules \o source_lang \o WordInto \o target_lang \o Dot
    IN  Str(TranslateHead \o source_lang \o TextTo \o target_lang
            \o FollowRules \o diacritics_rule \o Newline \o other_rules
            \o TaskHeader \o source_lang \o TextLabel
            \o Quote \o Format(text) \o Quote \o EndOfTurn)

\* app.py:68-88
tokenize_prompt(text, source_lang) ==
    LET tag_lang == IF source_lang = Arabic THEN Arabic ELSE English
        json_key == IF source_lang = Arabic THEN ArabicTags ELSE EnglishTags
    IN  Str(TokenizeHead \o source_lang \o TextColon
            \o Quote \o Format(text) \o Quote
            \o TagsMustBeIn \o tag_lang \o IfGenerating \o tag_lang
            \o TemplateOpen \o json_key \o TemplateClose \o EndOfTurn)

\* The rephrase template written as a plain string: {text} is not interpolated.
rephrase_prompt_plain(text, source_lang) ==
    Str(RephraseHead \o source_lang \o KeepItIn \o source_lang
        \o RephraseRules \o Quote \o Quote \o EndOfTurn)

\* app.py:90-101
rephrase_prompt(text, source_lang) ==
    Str(RephraseHead \o source_lang \o KeepItIn \o source_lang
        \o RephraseRules \o Quote \o Format(text) \o Quote \o EndOfTurn)

create_prompt(text, task, source_lang) ==
    IF task = "translate" THEN translate_prompt(text, source_lang)
    ELSE IF task = "tokenize" THEN tokenize_prompt(text, source_lang)
    ELSE IF task = "rephrase" THEN rephrase_prompt(text, source_lang)
    ELSE text

----------------------------------------------------------------------------
\* The request body of POST /generate, as request.get_json() returns it.
\* kind "object" is a JSON object; "array" and "null" are the other JSON
\* values, on which data.get raises AttributeError.  has_text / has_task say
\* whether the key is present; a present `text` may be null.

TextAlphabet == {97, 1605}

BodyTexts == {None} \cup {Str(s) : s \in Strings(TextAlphabet, MaxTextLen)}

Tasks == {"translate", "tokenize", "rephrase", "summarize"}

NoBody(k) ==
    [kind |-> k, has_text |-> FALSE, text |-> None, has_task |-> FALSE, task |-> ""]

Bodies ==
    {[kind |-> "object", has_text |-> TRUE, text |-> x, has_task |-> TRUE, task |-> k] :
        x \in BodyTexts, k \in Tasks}
    \cup {[kind |-> "object", has_text |-> FALSE, text |-> None, has_task |-> TRUE, task |-> k] :
        k \in Tasks}
    \cup {[kind |-> "object", has_text |-> TRUE, text |-> x, has_task |-> FALSE, task |-> ""] :
        x \in BodyTexts}
    \cup {NoBody("object"), NoBody("array"), NoBody("null")}

\* data.get('text', '')  (app.py:108)
get_text(data) == IF data.has_text THEN data.text ELSE Str(<<>>)

\* data.get('task', 'rephrase')
get_task_rephrase(data) == IF data.has_task THEN data.task ELSE "rephrase"

\* data.get('task', 'translate')  (app.py:109)
get_task(data) == IF data.has_task THEN data.task ELSE "translate"

OLLAMA_MODEL == "gemma3:12b"

NoPayload == [model |-> "", prompt |-> None, stream |-> FALSE]

\* app.py:110-117
build_payload(data) ==
    LET original_text == get_text(data)
        task == get_task(data)
        source_language == IF is_arabic(original_text) THEN Arabic ELSE English
        prompt == create_prompt(original_text, task, source_language)
    IN  [model |-> OLLAMA_MODEL, prompt |-> prompt, stream |-> TRUE]

----------------------------------------------------------------------------
\* The backend's streamed lines, as iter_lines delivers them.
\*   "empty"   a keep-alive line, b''
\*   "badjson" a line json.loads rejects (invalid JSON or invalid UTF-8)
\*   "array"   valid JSON that is not an object
\*   "object"  a JSON object; has says whether it has a `response` key,
\*             response is its value (a string or null), done is
\*             decoded_chunk.get('done', False)

EndOfStreamText == <<91, 69, 78, 68, 95, 79, 70, 95, 83, 84, 82, 69, 65, 77, 93>>
ErrorText == <<91, 69, 82, 82, 79, 82, 93>>

\* Generated texts: empty, one with a diacritic and a question mark, and the
\* two texts the sentinels carry.
ResponseTexts == {<<>>, <<1605, 1614, 63>>, EndOfStreamText, ErrorText}

NoLine == [kind |-> "none", has |-> FALSE, response |-> None, done |-> FALSE]

Lines ==
    {[kind |-> k, has |-> FALSE, response |-> None, done |-> FALSE] :
        k \in {"empty", "badjson", "array"}}
    \cup {[kind |-> "object", has |-> FALSE, response |-> None, done |-> d] :
        d \in BOOLEAN}
    \cup {[kind |-> "object", has |-> TRUE, response |-> r, done |-> d] :
        r \in {None} \cup {Str(s) : s \in ResponseTexts}, d \in BOOLEAN}

Upstreams == UNION {[1..k -> Lines] : k \in 0..MaxLines}

\* Outbound frames.  kind records which yield produced the frame: "fragment"
\* is app.py:132, "sentinel" is app.py:137 or app.py:141.  text is the string
\* yielded.
DataPrefix == <<100, 97, 116, 97, 58, 32>>
BlankLine == <<10, 10>>

FrameText(content) == DataPrefix \o content \o BlankLine

EndOfStreamFrame == [kind |-> "sentinel", text |-> FrameText(EndOfStreamText)]

ErrorFrame == [kind |-> "sentinel", text |-> FrameText(ErrorText)]

\* The frames of one decoded object with raw_response yielded uncleaned.
fragment_frames_raw(decoded_chunk) ==
    IF decoded_chunk.has /\ decoded_chunk.response # None
    THEN <<[kind |-> "fragment", text |-> FrameText(Format(decoded_chunk.response))]>>
    ELSE <<>>

\* The frames yielded for one decoded object (app.py:129-132).
fragment_frames(decoded_chunk) ==
    IF decoded_chunk.has /\ decoded_chunk.response # None
    THEN LET raw_response == decoded_chunk.response
             cleaned_response == clean_response(raw_response)
         IN  <<[kind |-> "fragment", text |-> FrameText(Format(cleaned_response))]>>
    ELSE <<>>

\* The loop without its break.
after_chunk_no_break(decoded_chunk) == "iter"

\* app.py:134-135: break on done, otherwise the next iteration.
after_chunk(decoded_chunk) == IF decoded_chunk.done THEN "end" ELSE "iter"

\* The exception classes that reach the except clause of app.py:139.
RequestExceptions == {"ConnectionError", "HTTPError", "ChunkedEncodingError"}

\* except requests.exceptions.ConnectionError
is_request_exception_narrow(e) == e = "ConnectionError"

\* except requests.exceptions.RequestException (app.py:139)
is_request_exception(e) == e \in RequestExceptions

----------------------------------------------------------------------------
\* The request: Generate is the route handler, the other actions are the
\* steps of generator(), which the server runs after the handler returned
\* the Response.

NoArg == [text |-> None, task |-> "", source_lang |-> <<>>]

Init ==
    /\ pc = "recv"
    /\ body \in Bodies
    /\ status = 0
    /\ mimetype = ""
    /\ payload = NoPayload
    /\ posts = 0
    /\ upstream = <<>>
    /\ ending = "close"
    /\ idx = 0
    /\ chunk = NoLine
    /\ exc = "none"
    /\ out = <<>>
    /\ arg = NoArg
    /\ ret = None

\* generate(), app.py:105-143.  data.get on a body that is not a JSON object
\* raises AttributeError, which the framework answers with status 500.
Generate ==
    /\ pc = "recv"
    /\ IF body.kind = "object"
       THEN /\ payload' = build_payload(body)
            /\ status' = 200
            /\ mimetype' = "text/event-stream"
            /\ pc' = "post"
            /\ exc' = exc
       ELSE /\ exc' = "AttributeError"
            /\ status' = 500
            /\ mimetype' = "text/html"
            /\ pc' = "failed"
            /\ payload' = payload
    /\ UNCHANGED <<body, posts, upstream, ending, idx, chunk, out, arg, ret>>

\* app.py:123-124, the backend answers 2xx and will deliver the lines of u,
\* then close the connection or break it.
PostOk ==
    /\ pc = "post"
    /\ posts' = posts + 1
    /\ \E u \in Upstreams, e \in {"close", "error"} :
          /\ upstream' = u
          /\ ending' = e
    /\ pc' = "iter"
    /\ UNCHANGED <<body, status, mimetype, payload, idx, chunk, exc, out, arg, ret>>

\* app.py:123, requests.post raises ConnectionError.
PostConnectionError ==
    /\ pc = "post"
    /\ posts' = posts + 1
    /\ exc' = "ConnectionError"
    /\ pc' = "raised"
    /\ UNCHANGED <<body, status, mimetype, payload, upstream, ending, idx, chunk,
                   out, arg, ret>>

\* app.py:124, the backend answers non-2xx and raise_for_status raises HTTPError.
PostBadStatus ==
    /\ pc = "post"
    /\ posts' = posts + 1
    /\ exc' = "HTTPError"
    /\ pc' = "raised"
    /\ UNCHANGED <<body, status, mimetype, payload, upstream, ending, idx, chunk,
                   out, arg, ret>>

\* app.py:126, one step of response.iter_lines(): the next line, the end of
\* the body, or a transport error.
NextLine ==
    /\ pc = "iter"
    /\ IF idx < Len(upstream)
       THEN /\ idx' = idx + 1
            /\ chunk' = upstream[idx + 1]
            /\ pc' = "chunk"
            /\ exc' = exc
       ELSE /\ idx' = idx
            /\ chunk' = NoLine
            /\ IF ending = "close"
               THEN pc' = "end" /\ exc' = exc
               ELSE pc' = "raised" /\ exc' = "ChunkedEncodingError"
    /\ UNCHANGED <<body, status, mimetype, payload, posts, upstream, ending, out,
                   arg, ret>>

\* app.py:127-135, the body of the for loop on the line in hand.
HandleChunk ==
    /\ pc = "chunk"
    /\ IF chunk.kind = "empty"
       THEN /\ pc' = "iter"
            /\ UNCHANGED <<exc, out>>
       ELSE IF chunk.kind = "badjson"
       THEN \* json.loads(chunk.decode('utf-8')) raises a ValueError
            /\ exc' = "ValueError"
            /\ pc' = "raised"
            /\ out' = out
       ELSE IF chunk.kind = "array"
       THEN \* 'response' in [] is False; [].get raises AttributeError
            /\ exc' = "AttributeError"
            /\ pc' = "raised"
            /\ out' = out
       ELSE /\ out' = out \o fragment_frames(chunk)
            /\ pc' = after_chunk(chunk)
            /\ exc' = exc
    /\ UNCHANGED <<body, status, mimetype, payload, posts, upstream, ending, idx,
                   chunk, arg, ret>>

\* app.py:137
YieldEndOfStream ==
    /\ pc = "end"
    /\ out' = Append(out, EndOfStreamFrame)
    /\ pc' = "closed"
    /\ UNCHANGED <<body, status, mimetype, payload, posts, upstream, ending, idx,
                   chunk, exc, arg, ret>>

\* An except clause that posts the request once more.
on_error_retry(p) == IF p < 2 THEN "post" ELSE "closed"

\* Where the generator goes after the except clause: it ends (app.py:139-141).
on_error(p) == "closed"

\* app.py:139-141: a RequestException is caught and the error sentinel is
\* yielded; any other exception leaves the generator and ends the stream.
Except ==
    /\ pc = "raised"
    /\ IF is_request_exception(exc)
       THEN /\ out' = Append(out, ErrorFrame)
            /\ pc' = on_error(posts)
       ELSE /\ out' = out
            /\ pc' = "crashed"
    /\ UNCHANGED <<body, status, mimetype, payload, posts, upstream, ending, idx,
                   chunk, exc, arg, ret>>

Next ==
    \/ Generate
    \/ PostOk
    \/ PostConnectionError
    \/ PostBadStatus
    \/ NextLine
    \/ HandleChunk
    \/ YieldEndOfStream
    \/ Except

Spec == Init /\ [][Next]_vars

----------------------------------------------------------------------------
\* Direct calls of the two pure functions, on inputs drawn from bounded sets.

CleanAlphabet == {97, 63, 1610, 1611, 1614, 1631, 1632, 1648}

CleanInputs == {None} \cup {Str(s) : s \in Strings(CleanAlphabet, MaxArgLen)}

Idle ==
    /\ body = NoBody("object")
    /\ status = 0
    /\ mimetype = ""
    /\ payload = NoPayload
    /\ posts = 0
    /\ upstream = <<>>
    /\ ending = "close"
    /\ idx = 0
    /\ chunk = NoLine
    /\ exc = "none"
    /\ out = <<>>

InitClean ==
    /\ pc = "call_clean"
    /\ arg \in {[text |-> x, task |-> "", source_lang |-> <<>>] : x \in CleanInputs}
    /\ ret = None
    /\ Idle

\* clean_response(text)
CallClean ==
    /\ pc = "call_clean"
    /\ ret' = clean_response(arg.text)
    /\ pc' = "ret_clean"
    /\ UNCHANGED <<body, status, mimetype, payload, posts, upstream, ending, idx,
                   chunk, exc, out, arg>>

\* clean_response applied to its own result
CallCleanAgain ==
    /\ pc = "ret_clean"
    /\ ret' = clean_response(ret)
    /\ pc' = "ret_clean_again"
    /\ UNCHANGED <<body, status, mimetype, payload, posts, upstream, ending, idx,
                   chunk, exc, out, arg>>

NextClean == CallClean \/ CallCleanAgain

SpecClean == InitClean /\ [][NextClean]_vars

PromptAlphabet == {97, 34, 1605}

PromptTexts == {None} \cup {Str(s) : s \in Strings(PromptAlphabet, MaxArgLen)}

InitPrompt ==
    /\ pc = "call_prompt"
    /\ arg \in {[text |-> x, task |-> k, source_lang |-> l] :
                   x \in PromptTexts, k \in Tasks \cup {""}, l \in {Arabic, English}}
    /\ ret = None
    /\ Idle

\* create_prompt(text, task, source_lang)
CallPrompt ==
    /\ pc = "call_prompt"
    /\ ret' = create_prompt(arg.text, arg.task, arg.source_lang)
    /\ pc' = "ret_prompt"
    /\ UNCHANGED <<body, status, mimetype, payload, posts, upstream, ending, idx,
                   chunk, exc, out, arg>>

NextPrompt == CallPrompt

SpecPrompt == InitPrompt /\ [][NextPrompt]_vars

----------------------------------------------------------------------------
\* Vocabulary of the properties.

IsFragment(f) == f.kind = "fragment"

IsSentinel(f) == f.kind = "sentinel"

Fragments(o) == SelectSeq(o, IsFragment)

Sentinels(o) == SelectSeq(o, IsSentinel)

EndOfStreamSentinel == [kind |-> "sentinel", text |-> DataPrefix \o EndOfStreamText \o BlankLine]

ErrorSentinel == [kind |-> "sentinel", text |-> DataPrefix \o ErrorText \o BlankLine]

\* Connection error, non-2xx status, transport error while iterating lines.
TransportFailures == {"ConnectionError", "HTTPError", "ChunkedEncodingError"}

\* A character the cleaner keeps: not U+064B..U+065F, not U+0670, not `?`.
Kept(c) == ~((c >= 1611 /\ c <= 1631) \/ c = 1648 \/ c = 63)

Malformed(l) == l.kind \in {"badjson", "array"}

HasResponse(l) == l.kind = "object" /\ l.has /\ l.response # None

IsDone(l) == l.kind = "object" /\ l.done

\* The fragment frames owed to a sequence of lines, one per line that carries
\* a non-null response.
RECURSIVE ExpectedFragments(_)
ExpectedFragments(ls) ==
    IF ls = <<>> THEN <<>>
    ELSE (IF HasResponse(Head(ls))
          THEN <<[kind |-> "fragment",
                  text |-> DataPrefix \o SelectSeq(Head(ls).response.v, Kept) \o BlankLine]>>
          ELSE <<>>) \o ExpectedFragments(Tail(ls))

\* The lines up to and including the first unit with done=true.
RECURSIVE UpToDone(_)
UpToDone(ls) ==
    IF ls = <<>> THEN <<>>
    ELSE IF IsDone(Head(ls)) THEN <<Head(ls)>>
    ELSE <<Head(ls)>> \o UpToDone(Tail(ls))

\* The lines up to and including the first unit with done=true, or up to and
\* excluding the first malformed line, whichever comes first.
RECURSIVE UpToStop(_)
UpToStop(ls) ==
    IF ls = <<>> THEN <<>>
    ELSE IF Malformed(Head(ls)) THEN <<>>
    ELSE IF IsDone(Head(ls)) THEN <<Head(ls)>>
    ELSE <<Head(ls)>> \o UpToStop(Tail(ls))

\* The generator has ended: it returned, or an exception left it.
Ended == pc \in {"closed", "crashed"}

\* The number of lines whose loop body has run.
Handled == IF pc = "chunk" THEN idx - 1 ELSE idx

----------------------------------------------------------------------------
\* C1: when the read loop completes normally (a done unit was seen or the
\* lines were exhausted) the stream has exactly one sentinel frame, it is the
\* last frame and it is `data: [END_OF_STREAM]`; when the upstream call fails
\* with a transport failure the same holds with `data: [ERROR]`; a transport
\* failure never ends the stream without its sentinel, and no sentinel is
\* yielded before the end.
C1_OneTerminalSentinel ==
    /\ (pc = "closed" /\ exc = "none") =>
          /\ Sentinels(out) = <<EndOfStreamSentinel>>
          /\ out[Len(out)] = EndOfStreamSentinel
    /\ (Ended /\ exc \in TransportFailures) =>
          /\ pc = "closed"
          /\ Sentinels(out) = <<ErrorSentinel>>
          /\ out[Len(out)] = ErrorSentinel
    /\ (pc \in {"post", "iter", "chunk", "end", "raised"}) => Sentinels(out) = <<>>
    /\ (pc \in {"iter", "chunk", "end"}) => exc = "none"

\* A stream of two fragments that ended because the lines were exhausted
\* without any done=true.
C1_Witness ==
    /\ pc = "closed"
    /\ exc = "none"
    /\ idx = 2
    /\ ~IsDone(upstream[1]) /\ ~IsDone(upstream[2])
    /\ Len(out) = 3

\* C2 (as claimed): after a malformed line the stream ends with the
\* `data: [ERROR]` sentinel frame.
C2_MalformedLineYieldsError ==
    (Ended /\ idx >= 1 /\ Malformed(upstream[idx])) =>
        /\ out # <<>>
        /\ out[Len(out)] = ErrorSentinel

\* C3: once a unit with done=true has been handled, no further line is read
\* and no further fragment is emitted; the done unit's own non-null response
\* is the last fragment frame, and the only frame that follows it is
\* `data: [END_OF_STREAM]`.
C3_DoneStopsReading ==
    [][(Handled >= 1 /\ IsDone(upstream[Handled])) =>
          /\ pc \in {"end", "closed"}
          /\ idx' = idx
          /\ out' = IF pc = "end" THEN Append(out, EndOfStreamSentinel) ELSE out
          /\ LET frames == IF pc = "end" THEN out ELSE SubSeq(out, 1, Len(out) - 1)
             IN  HasResponse(upstream[idx]) =>
                    /\ frames # <<>>
                    /\ frames[Len(frames)] = ExpectedFragments(<<upstream[idx]>>)[1]
      ]_vars

\* The stream was closed after a done unit that carried a response, while the
\* upstream had another line to deliver.
C3_Witness ==
    /\ pc = "closed"
    /\ idx = 1
    /\ Len(upstream) = 2
    /\ IsDone(upstream[1])
    /\ HasResponse(upstream[1])
    /\ HasResponse(upstream[2])

C5_FailureKeepsFragments ==
    /\ posts <= 1
    /\ (Ended /\ exc \in TransportFailures) =>
          /\ posts = 1
          /\ out = ExpectedFragments(SubSeq(upstream, 1, idx)) \o <<ErrorSentinel>>
          /\ (idx = 0 => out = <<ErrorSentinel>>)
    /\ (pc = "raised" /\ exc \in TransportFailures) =>
          out = ExpectedFragments(SubSeq(upstream, 1, idx))

\* Two fragments were relayed, then the connection broke.
C5_Witness ==
    /\ pc = "closed"
    /\ exc = "ChunkedEncodingError"
    /\ Len(out) = 3
    /\ out[3] = ErrorSentinel

\* C6 (as claimed): every answered request has status 200 and a
\* text/event-stream body.
C6_AlwaysOkStream ==
    status # 0 => (status = 200 /\ mimetype = "text/event-stream")

\* C8: a body without `text` gets the prompt of text "", a body without
\* `task` gets the translate prompt, an unrecognized task gets the input text
\* itself as the prompt, and each of them is answered 200.
C8_DefaultsAndFallback ==
    (pc # "recv" /\ body.kind = "object") =>
        LET text == IF body.has_text THEN body.text ELSE Str(<<>>)
            lang == IF is_arabic(text) THEN Arabic ELSE English
        IN  /\ status = 200
            /\ payload.model = "gemma3:12b"
            /\ payload.stream
            /\ ~body.has_text =>
                  payload.prompt =
                      create_prompt(Str(<<>>),
                                    IF body.has_task THEN body.task ELSE "translate",
                                    English)
            /\ ~body.has_task => payload.prompt = translate_prompt(text, lang)
            /\ (body.has_task /\ body.task \notin {"translate", "tokenize", "rephrase"}) =>
                  payload.prompt = text

\* A body with neither `text` nor `task` was sent on to the backend.
C8_Witness ==
    /\ posts = 1
    /\ body.kind = "object"
    /\ ~body.has_text
    /\ ~body.has_task

\* C10 (as claimed): no fragment frame has the text of a sentinel frame.
C10_SentinelsReserved ==
    \A i \in 1..Len(out) :
        IsFragment(out[i]) =>
            out[i].text \notin {EndOfStreamSentinel.text, ErrorSentinel.text}

----------------------------------------------------------------------------
\* C7 (as claimed): create_prompt returns a non-empty string that contains
\* the input text.
C7_NonEmptyContainsText ==
    (pc = "ret_prompt" /\ arg.text.t = "str") =>
        /\ ret.t = "str"
        /\ ret.v # <<>>
        /\ Contains(ret.v, arg.text.v)

\* C7 (amended): create_prompt returns a string that contains the input text;
\* it is non-empty unless the task is unrecognized and the text is empty, and
\* then it is the empty string.
C7_ContainsText ==
    (pc = "ret_prompt" /\ arg.text.t = "str") =>
        /\ ret.t = "str"
        /\ Contains(ret.v, arg.text.v)
        /\ (ret.v = <<>>) <=>
              (arg.text.v = <<>> /\ arg.task \notin {"translate", "tokenize", "rephrase"})
        /\ arg.task \in {"translate", "tokenize", "rephrase"} =>
              Contains(ret.v, <<34>> \o arg.text.v \o <<34>>)

\* The rephrase prompt of a two-character text.
C7_Witness ==
    /\ pc = "ret_prompt"
    /\ arg.task = "rephrase"
    /\ arg.text = Str(<<1605, 97>>)
    /\ Len(ret.v) > 4

\* C9: clean_response returns its input without the characters U+064B..U+065F,
\* U+0670 and `?`, the others in their order; so does a second application; an
\* input without those characters, the empty string and None come back as
\* they are.
C9_CleanIsFilter ==
    (pc \in {"ret_clean", "ret_clean_again"}) =>
        /\ arg.text.t = "None" => ret = None
        /\ arg.text.t = "str" =>
              /\ ret.t = "str"
              /\ ret.v = SelectSeq(arg.text.v, Kept)
              /\ \A i \in 1..Len(ret.v) : Kept(ret.v[i])
              /\ (\A i \in 1..Len(arg.text.v) : Kept(arg.text.v[i])) => ret = arg.text

\* A text with a diacritic from the top of the range and a question mark was
\* cleaned twice.
C9_Witness ==
    /\ pc = "ret_clean_again"
    /\ arg.text = Str(<<1631, 63>>)
    /\ ret = Str(<<>>)

====
